---- MODULE Spec2Model ----
(***************************************************************************)
(* rustpos backend: the transaction lifecycle handlers of                  *)
(* src/backend/src/main.rs over the SQLite tables items, transactions and  *)
(* transaction_items.  Every handler is split at its .await points: one    *)
(* action per SQL statement, so concurrent requests interleave exactly     *)
(* where the store lets them.  Amounts (f64 in the source) are integers;   *)
(* floating-point rounding is not modelled.  The point-of-sale screen of    *)
(* src/frontend/src/main.rs is modelled by its two line-item functions,    *)
(* add_item_to_transaction and remove_item_from_transaction, which read    *)
(* the transaction's details and then send one request.                    *)
(***************************************************************************)
EXTENDS Integers, Sequences, FiniteSets, TLC

\* ------------------------------------------------------------------ bounds
\* transaction_items rows a single client inserts (Uuid::new_v4 ids 1, 2, ...)
MaxLines == 2
\* largest quantity a request carries
MaxQty == 2
\* largest paid_amount a close request carries
MaxPaid == 3
\* transaction_items rows inserted while requests run concurrently
ConcMaxLines == 2

\* the axum tasks that serve requests
Reqs == {1, 2}
\* catalog ids: 1 and 2 are rows of items, 3 is an id with no row
ItemIds == {1, 2}
AbsentItem == 3
Prices == {1, 2}
\* last reading of the clock Utc::now()
MaxTime == 1

\* Option<T>
None == <<>>
Some(v) == <<v>>
CustomerNames == {None, Some("ann")}

\* AppError, as IntoResponse reports it
NotFound == "NotFound"
BadRequestNotOpen == "BadRequest: Transaction not found or not open"
BadRequestOutOfStock == "BadRequest: Item is out of stock"
BadRequestInsufficient == "BadRequest: Insufficient payment amount"
BadRequestDateRange == "BadRequest: End date must be after start date"
Ok == "Ok"

VARIABLES
    items,              \* table items: id -> [price, in_stock]
    transactions,       \* table transactions: id -> row
    transaction_items,  \* table transaction_items: set of rows
    now,                \* Utc::now()
    pc,                 \* per request: the statement its handler runs next
    req,                \* per request: handler and its Path/Json inputs
    loc,                \* per request: the handler's local variables
    resp,               \* per request: the response of the finished handler
    inserted,           \* transaction_items rows inserted so far (the last line id)
    printer_calls,      \* the calls of find_printer and print_receipt made so far
    client              \* per browser task: the frontend function it runs

vars == <<items, transactions, transaction_items, now, pc, req, loc, resp, inserted, printer_calls, client>>

db == <<items, transactions, transaction_items>>

\* ------------------------------------------------------------ requests
NoReq ==
    [op |-> "none", tx |-> 0, item |-> 0, quantity |-> 0, paid_amount |-> 0,
     customer_name |-> None, price |-> None, in_stock |-> None,
     start_date |-> 0, end_date |-> 0]

\* item: the Item read from the catalog; change: close's change; row: the
\* row a statement RETURNING * gave back; printed: how the receipt task ended
NoLoc == [item |-> None, change |-> 0, row |-> None, printed |-> "none"]

NoResp == [status |-> "none", body |-> None, change_amount |-> None]

Err(e) == [status |-> e, body |-> None, change_amount |-> None]

OkBody(b) == [status |-> Ok, body |-> b, change_amount |-> None]

\* a call of a function of printer.rs, by the function that makes it
PrinterCall(by, fn) == [by |-> by, fn |-> fn]

\* a handler can be started on a task that serves no request
Free(p) == pc[p] = "idle"

Respond(p, r) ==
    /\ pc' = [pc EXCEPT ![p] = "done"]
    /\ resp' = [resp EXCEPT ![p] = r]

Continue(p, label) ==
    /\ pc' = [pc EXCEPT ![p] = label]
    /\ resp' = [resp EXCEPT ![p] = NoResp]

Begin(p, r) ==
    /\ Free(p)
    /\ req' = [req EXCEPT ![p] = r]

\* the response is sent and the task's locals are dropped
Return(p) ==
    /\ pc[p] = "done"
    /\ pc' = [pc EXCEPT ![p] = "idle"]
    /\ req' = [req EXCEPT ![p] = NoReq]
    /\ loc' = [loc EXCEPT ![p] = NoLoc]
    /\ resp' = [resp EXCEPT ![p] = NoResp]
    /\ UNCHANGED <<db, now, inserted, printer_calls, client>>

\* ------------------------------------------------------------ the store
\* mutation of OpenTransaction: the status condition left out of the SELECT
OpenTransactionAnyStatus(txs, t) == t \in DOMAIN txs

\* SELECT * FROM transactions WHERE id = ? AND status = 'open'
OpenTransaction(txs, t) == t \in DOMAIN txs /\ txs[t].status = "open"

\* mutation of SelectItem: a missing row read as a default Item
SelectItemOrDefault(its, i) ==
    IF i \in DOMAIN its THEN Some(its[i]) ELSE Some([price |-> 0, in_stock |-> TRUE])

\* SELECT * FROM items WHERE id = ?, fetch_optional
SelectItem(its, i) == IF i \in DOMAIN its THEN Some(its[i]) ELSE None

\* mutation of InStock: the in_stock check left out
InStockUnchecked(item) == TRUE

\* if !item.in_stock { return Err(...) }
InStock(item) == item.in_stock

\* rows of transaction_items WHERE transaction_id = ?
LinesOf(lines, t) == {l \in lines : l.transaction_id = t}

\* mutation of LinesFor: the item_id condition left out of the WHERE
LinesForAnyItem(lines, t, i) == {l \in lines : l.transaction_id = t}

\* rows of transaction_items WHERE transaction_id = ? AND item_id = ?
LinesFor(lines, t, i) == {l \in lines : l.transaction_id = t /\ l.item_id = i}

RECURSIVE SumTotalPrice(_)
\* COALESCE(SUM(total_price), 0)
SumTotalPrice(lines) ==
    IF lines = {} THEN 0
    ELSE LET l == CHOOSE x \in lines : TRUE
         IN  l.total_price + SumTotalPrice(lines \ {l})

\* mutation of UpdateTransactionTotal: updated_at refreshed, total left as it was
UpdateTransactionTotalStale(txs, lines, t, ts) ==
    IF t \in DOMAIN txs THEN [txs EXCEPT ![t].updated_at = ts] ELSE txs

\* mutation of UpdateTransactionTotal: WHERE id = ? left out of the UPDATE
UpdateTransactionTotalEveryRow(txs, lines, t, ts) ==
    [u \in DOMAIN txs |->
        [txs[u] EXCEPT !.total = SumTotalPrice(LinesOf(lines, t)),
                       !.updated_at = ts]]

\* mutation of UpdateTransactionTotal: the sum added to the stored total
UpdateTransactionTotalAdding(txs, lines, t, ts) ==
    IF t \in DOMAIN txs
    THEN [txs EXCEPT ![t].total = txs[t].total + SumTotalPrice(LinesOf(lines, t)),
                     ![t].updated_at = ts]
    ELSE txs

\* UPDATE transactions SET total = (SELECT ...), updated_at = ? WHERE id = ?
UpdateTransactionTotal(txs, lines, t, ts) ==
    IF t \in DOMAIN txs
    THEN [txs EXCEPT ![t].total = SumTotalPrice(LinesOf(lines, t)),
                     ![t].updated_at = ts]
    ELSE txs

\* ---------------------------------------------------- create_transaction
\* mutation of NewTransaction: a paid_amount of 0 instead of NULL
NewTransactionPaidZero(name, ts) ==
    [customer_name |-> name, status |-> "open", total |-> 0,
     paid_amount |-> Some(0), change_amount |-> None,
     created_at |-> ts, updated_at |-> ts, closed_at |-> None]

\* INSERT INTO transactions (...) VALUES (?, ?, 'open', 0.0, ?, ?)
NewTransaction(name, ts) ==
    [customer_name |-> name, status |-> "open", total |-> 0,
     paid_amount |-> None, change_amount |-> None,
     created_at |-> ts, updated_at |-> ts, closed_at |-> None]

create_transaction(p, name) ==
    /\ Begin(p, [NoReq EXCEPT !.op = "create_transaction", !.customer_name = name])
    /\ LET id == Cardinality(DOMAIN transactions) + 1
           row == NewTransaction(name, now)
       IN  /\ transactions' = [t \in DOMAIN transactions \cup {id} |->
                                  IF t = id THEN row ELSE transactions[t]]
           /\ loc' = [loc EXCEPT ![p] = [NoLoc EXCEPT !.row = Some(row)]]
           /\ Respond(p, OkBody(Some(row)))
    /\ UNCHANGED <<items, transaction_items, now, inserted, printer_calls, client>>

\* -------------------------------------------------- add_transaction_item
\* requests that passed the open check and have not inserted their row yet
Inserting == {q \in Reqs : pc[q] \in {"add_select_item", "add_insert"}}

\* mutation of TotalPrice: the quantity left out of the product
TotalPriceOfOne(price, quantity) == price

\* let total_price = item.price * dto.quantity as f64
TotalPrice(price, quantity) == price * quantity

NewTransactionItem(id, t, i, quantity, price, ts) ==
    [id |-> id, transaction_id |-> t, item_id |-> i, quantity |-> quantity,
     unit_price |-> price, total_price |-> TotalPrice(price, quantity),
     created_at |-> ts]

\* mutation of add_select_transaction: the SELECT of the open transaction
\* left out
add_select_transaction_unchecked(p, t, i, q) ==
    /\ Begin(p, [NoReq EXCEPT !.op = "add_transaction_item", !.tx = t,
                              !.item = i, !.quantity = q])
    /\ loc' = [loc EXCEPT ![p] = NoLoc]
    /\ Continue(p, "add_select_item")
    /\ UNCHANGED <<db, now, inserted, printer_calls, client>>

\* SELECT * FROM transactions WHERE id = ? AND status = 'open'
add_select_transaction(p, t, i, q) ==
    /\ Begin(p, [NoReq EXCEPT !.op = "add_transaction_item", !.tx = t,
                              !.item = i, !.quantity = q])
    /\ loc' = [loc EXCEPT ![p] = NoLoc]
    /\ IF OpenTransaction(transactions, t)
       THEN Continue(p, "add_select_item")
       ELSE Respond(p, Err(BadRequestNotOpen))
    /\ UNCHANGED <<db, now, inserted, printer_calls, client>>

\* SELECT * FROM items WHERE id = ?; then the in_stock check
add_select_item(p) ==
    /\ pc[p] = "add_select_item"
    /\ LET item == SelectItem(items, req[p].item)
       IN  IF item = None
           THEN Respond(p, Err(NotFound)) /\ UNCHANGED loc
           ELSE IF ~InStock(item[1])
           THEN Respond(p, Err(BadRequestOutOfStock)) /\ UNCHANGED loc
           ELSE /\ loc' = [loc EXCEPT ![p].item = item]
                /\ Continue(p, "add_insert")
    /\ UNCHANGED <<db, now, req, inserted, printer_calls, client>>

\* INSERT INTO transaction_items (...) RETURNING *
add_insert(p) ==
    /\ pc[p] = "add_insert"
    /\ LET row == NewTransactionItem(inserted + 1, req[p].tx, req[p].item,
                                     req[p].quantity, loc[p].item[1].price, now)
       IN  /\ transaction_items' = transaction_items \cup {row}
           /\ loc' = [loc EXCEPT ![p].row = Some(row)]
    /\ inserted' = inserted + 1
    /\ Continue(p, "add_update_total")
    /\ UNCHANGED <<items, transactions, now, req, printer_calls, client>>

\* update_transaction_total(&state.db, transaction_id)
add_update_total(p) ==
    /\ pc[p] = "add_update_total"
    /\ transactions' = UpdateTransactionTotal(transactions, transaction_items,
                                              req[p].tx, now)
    /\ Respond(p, OkBody(loc[p].row))
    /\ UNCHANGED <<items, transaction_items, now, req, loc, inserted, printer_calls, client>>

\* ----------------------------------------------- update_transaction_item
update_select_transaction(p, t, i, q) ==
    /\ Begin(p, [NoReq EXCEPT !.op = "update_transaction_item", !.tx = t,
                              !.item = i, !.quantity = q])
    /\ loc' = [loc EXCEPT ![p] = NoLoc]
    /\ IF OpenTransaction(transactions, t)
       THEN Continue(p, "update_select_item")
       ELSE Respond(p, Err(BadRequestNotOpen))
    /\ UNCHANGED <<db, now, inserted, printer_calls, client>>

update_select_item(p) ==
    /\ pc[p] = "update_select_item"
    /\ LET item == SelectItem(items, req[p].item)
       IN  IF item = None
           THEN Respond(p, Err(NotFound)) /\ UNCHANGED loc
           ELSE IF ~InStock(item[1])
           THEN Respond(p, Err(BadRequestOutOfStock)) /\ UNCHANGED loc
           ELSE /\ loc' = [loc EXCEPT ![p].item = item]
                /\ Continue(p, "update_update")
    /\ UNCHANGED <<db, now, req, inserted, printer_calls, client>>

\* mutation of UpdatedTransactionItem: unit_price left out of the SET list
UpdatedTransactionItemOldPrice(l, quantity, price, ts) ==
    [l EXCEPT !.quantity = quantity,
              !.total_price = TotalPrice(l.unit_price, quantity), !.created_at = ts]

\* SET quantity = ?, unit_price = ?, total_price = ?, created_at = ?
UpdatedTransactionItem(l, quantity, price, ts) ==
    [l EXCEPT !.quantity = quantity, !.unit_price = price,
              !.total_price = TotalPrice(price, quantity), !.created_at = ts]

\* UPDATE transaction_items SET ... WHERE transaction_id = ? AND item_id = ?
\* RETURNING *, fetch_optional: every matching row is written, one is returned
update_update(p) ==
    /\ pc[p] = "update_update"
    /\ LET hit == LinesFor(transaction_items, req[p].tx, req[p].item)
           new == {UpdatedTransactionItem(l, req[p].quantity,
                                          loc[p].item[1].price, now) : l \in hit}
       IN  IF hit = {}
           THEN /\ Respond(p, Err(NotFound))
                /\ UNCHANGED <<transaction_items, loc>>
           ELSE /\ transaction_items' = (transaction_items \ hit) \cup new
                /\ \E r \in new : loc' = [loc EXCEPT ![p].row = Some(r)]
                /\ Continue(p, "update_update_total")
    /\ UNCHANGED <<items, transactions, now, req, inserted, printer_calls, client>>

\* mutation of update_update_total: the total taken from the row the handler
\* holds and the other lines, not from the stored lines of the item
update_update_total_from_row(p) ==
    /\ pc[p] = "update_update_total"
    /\ transactions' =
           [transactions EXCEPT
              ![req[p].tx].total =
                  loc[p].row[1].total_price
                  + SumTotalPrice({l \in LinesOf(transaction_items, req[p].tx) :
                                      l.item_id # req[p].item}),
              ![req[p].tx].updated_at = now]
    /\ Respond(p, OkBody(loc[p].row))
    /\ UNCHANGED <<items, transaction_items, now, req, loc, inserted, printer_calls, client>>

update_update_total(p) ==
    /\ pc[p] = "update_update_total"
    /\ transactions' = UpdateTransactionTotal(transactions, transaction_items,
                                              req[p].tx, now)
    /\ Respond(p, OkBody(loc[p].row))
    /\ UNCHANGED <<items, transaction_items, now, req, loc, inserted, printer_calls, client>>

\* ----------------------------------------------- remove_transaction_item
remove_select_transaction(p, t, i) ==
    /\ Begin(p, [NoReq EXCEPT !.op = "remove_transaction_item", !.tx = t,
                              !.item = i])
    /\ loc' = [loc EXCEPT ![p] = NoLoc]
    /\ IF OpenTransaction(transactions, t)
       THEN Continue(p, "remove_delete")
       ELSE Respond(p, Err(BadRequestNotOpen))
    /\ UNCHANGED <<db, now, inserted, printer_calls, client>>

\* DELETE FROM transaction_items WHERE transaction_id = ? AND item_id = ?
remove_delete(p) ==
    /\ pc[p] = "remove_delete"
    /\ LET hit == LinesFor(transaction_items, req[p].tx, req[p].item)
       IN  IF hit = {}
           THEN Respond(p, Err(NotFound)) /\ UNCHANGED transaction_items
           ELSE /\ transaction_items' = transaction_items \ hit
                /\ Continue(p, "remove_update_total")
    /\ UNCHANGED <<items, transactions, now, req, loc, inserted, printer_calls, client>>

remove_update_total(p) ==
    /\ pc[p] = "remove_update_total"
    /\ transactions' = UpdateTransactionTotal(transactions, transaction_items,
                                              req[p].tx, now)
    /\ Respond(p, OkBody(None))
    /\ UNCHANGED <<items, transaction_items, now, req, loc, inserted, printer_calls, client>>

\* ---------------------------------------------------- update_transaction
update_transaction_select(p, t, name) ==
    /\ Begin(p, [NoReq EXCEPT !.op = "update_transaction", !.tx = t,
                              !.customer_name = name])
    /\ loc' = [loc EXCEPT ![p] = NoLoc]
    /\ IF OpenTransaction(transactions, t)
       THEN Continue(p, "update_transaction_update")
       ELSE Respond(p, Err(BadRequestNotOpen))
    /\ UNCHANGED <<db, now, inserted, printer_calls, client>>

\* UPDATE transactions SET customer_name = ?, updated_at = ? WHERE id = ?
RenamedTransaction(row, name, ts) ==
    [row EXCEPT !.customer_name = name, !.updated_at = ts]

update_transaction_update(p) ==
    /\ pc[p] = "update_transaction_update"
    /\ LET row == RenamedTransaction(transactions[req[p].tx],
                                     req[p].customer_name, now)
       IN  /\ transactions' = [transactions EXCEPT ![req[p].tx] = row]
           /\ loc' = [loc EXCEPT ![p].row = Some(row)]
           /\ Respond(p, OkBody(Some(row)))
    /\ UNCHANGED <<items, transaction_items, now, req, inserted, printer_calls, client>>

\* ----------------------------------------------------- close_transaction
\* mutation of InsufficientPayment: an exact payment refused
InsufficientPaymentOrExact(paid_amount, total) == paid_amount <= total

\* if dto.paid_amount < transaction.total
InsufficientPayment(paid_amount, total) == paid_amount < total

\* SELECT * FROM transactions WHERE id = ? AND status = 'open'; then the
\* payment check and let change = dto.paid_amount - transaction.total
close_select(p, t, paid) ==
    /\ Begin(p, [NoReq EXCEPT !.op = "close_transaction", !.tx = t,
                              !.paid_amount = paid])
    /\ IF ~OpenTransaction(transactions, t)
       THEN /\ Respond(p, Err(BadRequestNotOpen))
            /\ loc' = [loc EXCEPT ![p] = NoLoc]
       ELSE IF InsufficientPayment(paid, transactions[t].total)
       THEN /\ Respond(p, Err(BadRequestInsufficient))
            /\ loc' = [loc EXCEPT ![p] = NoLoc]
       ELSE /\ loc' = [loc EXCEPT ![p] =
                         [NoLoc EXCEPT !.change = paid - transactions[t].total]]
            /\ Continue(p, "close_update")
    /\ UNCHANGED <<db, now, inserted, printer_calls, client>>

\* mutation of ClosedTransaction: closed_at left out of the SET list
ClosedTransactionNoClosedAt(row, paid, change, ts) ==
    [row EXCEPT !.status = "closed", !.paid_amount = Some(paid),
                !.change_amount = Some(change), !.updated_at = ts]

\* SET status = 'closed', paid_amount = ?, change_amount = ?, closed_at = ?,
\* updated_at = ?
ClosedTransaction(row, paid, change, ts) ==
    [row EXCEPT !.status = "closed", !.paid_amount = Some(paid),
                !.change_amount = Some(change), !.closed_at = Some(ts),
                !.updated_at = ts]

\* mutation of CloseUpdateMatches: no row matched once the transaction has
\* left open, and fetch_one never answering
CloseUpdateMatchesOpenOnly(txs, t) == t \in DOMAIN txs /\ txs[t].status = "open"

\* the rows UPDATE transactions ... WHERE id = ? writes: the WHERE clause of
\* the settlement names the id alone
CloseUpdateMatches(txs, t) == t \in DOMAIN txs

\* UPDATE transactions SET ... WHERE id = ? RETURNING *
close_update(p) ==
    /\ pc[p] = "close_update"
    /\ CloseUpdateMatches(transactions, req[p].tx)
    /\ LET row == ClosedTransaction(transactions[req[p].tx], req[p].paid_amount,
                                    loc[p].change, now)
       IN  /\ transactions' = [transactions EXCEPT ![req[p].tx] = row]
           /\ loc' = [loc EXCEPT ![p].row = Some(row)]
    /\ Continue(p, "close_select_items")
    /\ UNCHANGED <<items, transaction_items, now, req, inserted, printer_calls, client>>

\* if transaction.status == "closed": SELECT ... FROM transaction_items ti
\* JOIN items i ... WHERE ti.transaction_id = ?
close_select_items(p) ==
    /\ pc[p] = "close_select_items"
    /\ Continue(p, "close_spawn")
    /\ UNCHANGED <<db, now, req, loc, inserted, printer_calls, client>>

\* how the spawn_blocking task can end: print_receipt returned Ok, find_printer
\* returned Err, print_receipt returned Err, the task panicked (JoinError)
PrintOutcomes == {"printed", "no_printer", "io_error", "panicked"}

\* mutation of CloseResponse: the task's failure propagated with ?
CloseResponsePropagating(outcome, row, change) ==
    IF outcome \in {"io_error", "panicked"}
    THEN [status |-> "Internal", body |-> None, change_amount |-> None]
    ELSE [status |-> Ok, body |-> row, change_amount |-> Some(change)]

\* what close_transaction returns for the task's outcome: let _ = ... .await
\* drops it, then Ok(Json(CloseTransactionResponse { transaction, change_amount }))
CloseResponse(outcome, row, change) ==
    [status |-> Ok, body |-> row, change_amount |-> Some(change)]

\* the printer functions the receipt task has called when it ends: always
\* find_printer, and print_receipt unless no printer was found; a panic is
\* taken to be raised inside print_receipt
ReceiptTaskCalls(outcome) ==
    {PrinterCall("close_transaction", "find_printer")}
    \cup IF outcome = "no_printer" THEN {}
         ELSE {PrinterCall("close_transaction", "print_receipt")}

\* mutation of close_spawn: the JoinHandle dropped instead of awaited, the
\* response sent while the task runs
close_spawn_detached(p) ==
    /\ pc[p] = "close_spawn"
    /\ loc' = [loc EXCEPT ![p].printed = "running"]
    /\ Respond(p, CloseResponse("running", loc[p].row, loc[p].change))
    /\ UNCHANGED <<db, now, req, inserted, printer_calls, client>>

\* tokio::task::spawn_blocking(move || ...): the receipt task starts on the
\* blocking pool and the handler awaits its JoinHandle
close_spawn(p) ==
    /\ pc[p] = "close_spawn"
    /\ loc' = [loc EXCEPT ![p].printed = "running"]
    /\ Continue(p, "close_print")
    /\ UNCHANGED <<db, now, req, inserted, printer_calls, client>>

\* the receipt task ends, .await returns and the response is sent
close_print(p, outcome) ==
    /\ pc[p] = "close_print"
    /\ loc' = [loc EXCEPT ![p].printed = outcome]
    /\ printer_calls' = printer_calls \cup ReceiptTaskCalls(outcome)
    /\ Respond(p, CloseResponse(outcome, loc[p].row, loc[p].change))
    /\ UNCHANGED <<db, now, req, inserted, client>>

\* ---------------------------------------------------- cancel_transaction
\* mutation of CancelUpdateMatches: the status guard left out of the WHERE
CancelUpdateMatchesAnyStatus(txs, t) == t \in DOMAIN txs

\* the rows UPDATE ... WHERE id = ? AND status = 'open' writes
CancelUpdateMatches(txs, t) == OpenTransaction(txs, t)

\* mutation of CancelledTransaction: updated_at left out of the SET list
CancelledTransactionStatusOnly(row, ts) == [row EXCEPT !.status = "cancelled"]

\* SET status = 'cancelled', updated_at = ?
CancelledTransaction(row, ts) ==
    [row EXCEPT !.status = "cancelled", !.updated_at = ts]

cancel_transaction(p, t) ==
    /\ Begin(p, [NoReq EXCEPT !.op = "cancel_transaction", !.tx = t])
    /\ IF CancelUpdateMatches(transactions, t)
       THEN LET row == CancelledTransaction(transactions[t], now)
            IN  /\ transactions' = [transactions EXCEPT ![t] = row]
                /\ loc' = [loc EXCEPT ![p] = [NoLoc EXCEPT !.row = Some(row)]]
                /\ Respond(p, OkBody(Some(row)))
       ELSE /\ Respond(p, Err(BadRequestNotOpen))
            /\ loc' = [loc EXCEPT ![p] = NoLoc]
            /\ UNCHANGED transactions
    /\ UNCHANGED <<items, transaction_items, now, inserted, printer_calls, client>>

\* ------------------------------------------------------------ update_item
\* SELECT * FROM items WHERE id = ?, then the dto's fields over the copy
update_item_select(p, i, price, in_stock) ==
    /\ Begin(p, [NoReq EXCEPT !.op = "update_item", !.item = i,
                              !.price = price, !.in_stock = in_stock])
    /\ LET item == SelectItem(items, i)
       IN  IF item = None
           THEN /\ Respond(p, Err(NotFound))
                /\ loc' = [loc EXCEPT ![p] = NoLoc]
           ELSE /\ loc' = [loc EXCEPT ![p] = [NoLoc EXCEPT !.item = Some(
                      [price |-> IF price = None THEN item[1].price ELSE price[1],
                       in_stock |-> IF in_stock = None THEN item[1].in_stock
                                    ELSE in_stock[1]])]]
                /\ Continue(p, "update_item_update")
    /\ UNCHANGED <<db, now, inserted, printer_calls, client>>

\* mutation of update_item_update: the lines of the item follow its new price
update_item_update_repricing(p) ==
    /\ pc[p] = "update_item_update"
    /\ items' = [items EXCEPT ![req[p].item] = loc[p].item[1]]
    /\ transaction_items' =
           {IF l.item_id = req[p].item
            THEN [l EXCEPT !.unit_price = loc[p].item[1].price,
                           !.total_price = TotalPrice(loc[p].item[1].price, l.quantity)]
            ELSE l : l \in transaction_items}
    /\ Respond(p, OkBody(loc[p].item))
    /\ UNCHANGED <<transactions, now, req, loc, inserted, printer_calls, client>>

\* UPDATE items SET ... price = ?, ... in_stock = ? ... WHERE id = ?
update_item_update(p) ==
    /\ pc[p] = "update_item_update"
    /\ items' = [items EXCEPT ![req[p].item] = loc[p].item[1]]
    /\ Respond(p, OkBody(loc[p].item))
    /\ UNCHANGED <<transactions, transaction_items, now, req, loc, inserted, printer_calls, client>>

\* ------------------------------------------------- generate_sales_report
\* mutation of ClosedInWindow: the end of the window taken as inclusive
ClosedInWindowInclusive(txs, start, end) ==
    {t \in DOMAIN txs : /\ txs[t].status = "closed"
                        /\ txs[t].closed_at # None
                        /\ txs[t].closed_at[1] >= start
                        /\ txs[t].closed_at[1] <= end}

\* transactions WHERE status = 'closed' AND closed_at >= ? AND closed_at < ?
\* (a NULL closed_at satisfies neither comparison)
ClosedInWindow(txs, start, end) ==
    {t \in DOMAIN txs : /\ txs[t].status = "closed"
                        /\ txs[t].closed_at # None
                        /\ txs[t].closed_at[1] >= start
                        /\ txs[t].closed_at[1] < end}

\* transaction_items ti JOIN items i ON ti.item_id = i.id JOIN transactions t
\* ON ti.transaction_id = t.id WHERE ...; every item has its category
ReportLines(its, txs, lines, start, end) ==
    {l \in lines : /\ l.item_id \in DOMAIN its
                   /\ l.transaction_id \in ClosedInWindow(txs, start, end)}

RECURSIVE SumField(_, _)
\* SUM(column) over a set of rows
SumField(rows, f) ==
    IF rows = {} THEN 0
    ELSE LET r == CHOOSE x \in rows : TRUE
         IN  r[f] + SumField(rows \ {r}, f)

\* one row of GROUP BY i.id; item_name is the id, average_price = AVG(unit_price)
\* is kept as the pair <<sum, count>>
ItemSalesReport(i, ls) ==
    [item_id |-> i,
     quantity_sold |-> SumField(ls, "quantity"),
     total_revenue |-> SumField(ls, "total_price"),
     average_price |-> <<SumField(ls, "unit_price"), Cardinality(ls)>>,
     transaction_count |-> Cardinality({l.transaction_id : l \in ls})]

ReportRows(its, txs, lines, start, end) ==
    LET q == ReportLines(its, txs, lines, start, end)
    IN  {ItemSalesReport(i, {l \in q : l.item_id = i}) : i \in {l.item_id : l \in q}}

\* ORDER BY total_revenue DESC: every order of the rows that it allows
OrderedByRevenue(rows) ==
    {s \in [1..Cardinality(rows) -> rows] :
        /\ \A j, k \in DOMAIN s : j # k => s[j] # s[k]
        /\ \A j, k \in DOMAIN s : j < k => s[j].total_revenue >= s[k].total_revenue}

\* Iterator::max_by_key and Iterator::max_by: None on an empty iterator, else
\* the last of the elements that are maximal; mapped to item_name
MaxBy(s, f) ==
    IF DOMAIN s = {} THEN None
    ELSE LET k == CHOOSE k \in DOMAIN s :
                     /\ \A j \in DOMAIN s : s[j][f] <= s[k][f]
                     /\ \A j \in DOMAIN s : j > k => s[j][f] < s[k][f]
         IN  Some(s[k].item_id)

\* ReportSummary; average_transaction_value is kept as the pair
\* <<dividend, divisor>>
ReportSummary(s, transaction_count) ==
    LET rows == {s[k] : k \in DOMAIN s}
        total_revenue == SumField(rows, "total_revenue")
    IN  [total_revenue |-> total_revenue,
         total_items_sold |-> SumField(rows, "quantity_sold"),
         total_transactions |-> transaction_count,
         average_transaction_value |->
             IF transaction_count > 0 THEN <<total_revenue, transaction_count>>
             ELSE <<0, 1>>,
         top_selling_item |-> MaxBy(s, "quantity_sold"),
         top_revenue_item |-> MaxBy(s, "total_revenue")]

\* the date range check, then the item sales query
generate_sales_report_items(p, start, end) ==
    /\ Begin(p, [NoReq EXCEPT !.op = "generate_sales_report",
                              !.start_date = start, !.end_date = end])
    /\ IF end <= start
       THEN /\ Respond(p, Err(BadRequestDateRange))
            /\ loc' = [loc EXCEPT ![p] = NoLoc]
       ELSE /\ \E s \in OrderedByRevenue(ReportRows(items, transactions,
                                                     transaction_items, start, end)) :
                  loc' = [loc EXCEPT ![p] = [NoLoc EXCEPT !.row = Some(s)]]
            /\ Continue(p, "report_count")
    /\ UNCHANGED <<db, now, inserted, printer_calls, client>>

\* SELECT COUNT(DISTINCT id) FROM transactions WHERE ..., then the summary
generate_sales_report_count(p) ==
    /\ pc[p] = "report_count"
    /\ LET transaction_count ==
               Cardinality(ClosedInWindow(transactions, req[p].start_date,
                                          req[p].end_date))
       IN  Respond(p, OkBody(Some([items |-> loc[p].row[1],
                                   summary |-> ReportSummary(loc[p].row[1],
                                                             transaction_count)])))
    /\ UNCHANGED <<db, now, req, loc, inserted, printer_calls, client>>

\* -------------------------------------------------------- get_transaction
\* SELECT ti.id, ti.item_id, i.name, ti.quantity, ti.unit_price, ti.total_price
\* FROM transaction_items ti JOIN items i ON ti.item_id = i.id
\* WHERE ti.transaction_id = ?
TransactionItemDetails(its, lines, t) ==
    {[id |-> l.id, item_id |-> l.item_id, quantity |-> l.quantity,
      unit_price |-> l.unit_price, total_price |-> l.total_price] :
        l \in {x \in LinesOf(lines, t) : x.item_id \in DOMAIN its}}

\* SELECT * FROM transactions WHERE id = ?, fetch_optional, ok_or(NotFound)
get_transaction_select(p, t) ==
    /\ Begin(p, [NoReq EXCEPT !.op = "get_transaction", !.tx = t])
    /\ IF t \in DOMAIN transactions
       THEN /\ loc' = [loc EXCEPT ![p] = [NoLoc EXCEPT !.row = Some(transactions[t])]]
            /\ Continue(p, "get_transaction_items")
       ELSE /\ loc' = [loc EXCEPT ![p] = NoLoc]
            /\ Respond(p, Err(NotFound))
    /\ UNCHANGED <<db, now, inserted, printer_calls, client>>

\* the items query; Ok(Json(TransactionDetailsResponse { transaction, items }))
get_transaction_items(p) ==
    /\ pc[p] = "get_transaction_items"
    /\ Respond(p, OkBody(Some([transaction |-> loc[p].row[1],
                               items |-> TransactionItemDetails(
                                             items, transaction_items, req[p].tx)])))
    /\ UNCHANGED <<db, now, req, loc, inserted, printer_calls, client>>

\* --------------------------------------------------------------- frontend
\* clicks one browser task makes
MaxClicks == 2

\* a browser task (spawn_local): the function it runs, its arguments, the
\* request it has sent and awaits, its Result, the clicks it has served
NoClient ==
    [pc |-> "idle", fn |-> "none", transaction_id |-> 0, item_id |-> 0,
     quantity |-> 0, request |-> NoReq, result |-> "none", clicks |-> 0]

\* Request::get(".../transactions/{id}")
GetDetails(t) == [NoReq EXCEPT !.op = "get_transaction", !.tx = t]

\* Request::post(".../transactions/{id}/items").json(&AddTransactionItemDto)
PostItem(t, i, q) ==
    [NoReq EXCEPT !.op = "add_transaction_item", !.tx = t, !.item = i, !.quantity = q]

\* Request::put(".../transactions/{id}/items/{item_id}").json(&UpdateTransactionItemDto)
PutItem(t, i, q) ==
    [NoReq EXCEPT !.op = "update_transaction_item", !.tx = t, !.item = i,
                  !.quantity = q]

\* Request::delete(".../transactions/{id}/items/{item_id}")
DeleteItem(t, i) ==
    [NoReq EXCEPT !.op = "remove_transaction_item", !.tx = t, !.item = i]

\* details.items.iter().find(|item| item.item_id == item_id): the first match
\* in the order the store returned the rows, which the query leaves open
Find(details, i) ==
    LET hit == {d \in details : d.item_id = i}
    IN  IF hit = {} THEN {None} ELSE {Some(d) : d \in hit}

\* the task sends request r and awaits the response, running function fn
Send(c, fn, r) == [c EXCEPT !.pc = "await", !.fn = fn, !.request = r]

\* the function returns
Finish(c, result) == [c EXCEPT !.pc = "idle", !.request = NoReq, !.result = result]

\* mutation of remove_item_from_transaction: a line of quantity 1 decremented
\* like any other
remove_item_from_transaction_decrementing(c, found) ==
    IF found = None THEN Finish(c, "Ok")
    ELSE IF found[1].quantity >= 1
    THEN Send(c, "remove_item_from_transaction",
              PutItem(c.transaction_id, c.item_id, found[1].quantity - 1))
    ELSE Finish(c, "Ok")

\* remove_item_from_transaction once the details are fetched
remove_item_from_transaction(c, found) ==
    IF found = None THEN Finish(c, "Ok")
    ELSE IF found[1].quantity > 1
    THEN Send(c, "remove_item_from_transaction",
              PutItem(c.transaction_id, c.item_id, found[1].quantity - 1))
    ELSE IF found[1].quantity = 1
    THEN Send(c, "remove_item_from_transaction",
              DeleteItem(c.transaction_id, c.item_id))
    ELSE Finish(c, "Ok")

\* add_item_to_transaction once the details are fetched; new_quantity <= 0
\* calls remove_item_from_transaction, which fetches the details again
add_item_to_transaction(c, found) ==
    LET new_quantity == IF found = None THEN c.quantity
                        ELSE found[1].quantity + c.quantity
    IN  IF new_quantity <= 0
        THEN Send(c, "remove_item_from_transaction", GetDetails(c.transaction_id))
        ELSE IF new_quantity = 1
        THEN Send(c, "add_item_to_transaction",
                  PostItem(c.transaction_id, c.item_id, new_quantity))
        ELSE Send(c, "add_item_to_transaction",
                  PutItem(c.transaction_id, c.item_id, new_quantity))

\* a click: the closure spawns a task that calls fn on the current
\* transaction, and fn begins with fetch_transaction_details
Click(c, fn, t, i, quantity) ==
    /\ client[c].pc = "idle"
    /\ Free(c)
    /\ client[c].clicks < MaxClicks
    /\ t \in DOMAIN transactions
    /\ client' = [client EXCEPT ![c] =
                    [NoClient EXCEPT !.pc = "await", !.fn = fn,
                                     !.transaction_id = t, !.item_id = i,
                                     !.quantity = quantity,
                                     !.request = GetDetails(t),
                                     !.clicks = client[c].clicks + 1]]
    /\ UNCHANGED <<db, now, pc, req, loc, resp, inserted, printer_calls>>

\* let add_item = move |item: Item| ...: add_item_to_transaction(trans_id, item.id, 1)
add_item(c, t, i) == Click(c, "add_item_to_transaction", t, i, 1)

\* let remove_item = move |item_id: Uuid| ...
remove_item(c, t, i) == Click(c, "remove_item_from_transaction", t, i, 0)

\* the router hands the request a browser task has sent to its handler, which
\* runs its first statement
route(p) ==
    /\ client[p].pc = "await"
    /\ LET r == client[p].request
       IN  CASE r.op = "get_transaction" -> get_transaction_select(p, r.tx)
             [] r.op = "add_transaction_item" ->
                    add_select_transaction(p, r.tx, r.item, r.quantity)
             [] r.op = "update_transaction_item" ->
                    update_select_transaction(p, r.tx, r.item, r.quantity)
             [] r.op = "remove_transaction_item" ->
                    remove_select_transaction(p, r.tx, r.item)

\* the browser task takes the response: fetch_transaction_details fails on a
\* body that is no TransactionDetailsResponse; the writes map only a failed
\* send to Err, so whatever the server answered the function returns Ok(())
receive(c) ==
    /\ client[c].pc = "await"
    /\ pc[c] = "done"
    /\ LET fetched == client[c].request.op = "get_transaction"
           details == IF fetched /\ resp[c].status = Ok
                      THEN resp[c].body[1].items ELSE {}
       IN  \E found \in Find(details, client[c].item_id) :
              client' = [client EXCEPT ![c] =
                  IF ~fetched THEN Finish(client[c], "Ok")
                  ELSE IF resp[c].status # Ok THEN Finish(client[c], "Err")
                  ELSE IF client[c].fn = "add_item_to_transaction"
                  THEN add_item_to_transaction(client[c], found)
                  ELSE remove_item_from_transaction(client[c], found)]
    /\ pc' = [pc EXCEPT ![c] = "idle"]
    /\ req' = [req EXCEPT ![c] = NoReq]
    /\ loc' = [loc EXCEPT ![c] = NoLoc]
    /\ resp' = [resp EXCEPT ![c] = NoResp]
    /\ UNCHANGED <<db, now, inserted, printer_calls>>

\* ---------------------------------------------------------- store failures
\* AppError::Database, what ? makes of an sqlx::Error
DatabaseError == "Database"

\* the handler positions at which the next thing to run is an SQL statement
Statements ==
    {"add_select_item", "add_insert", "add_update_total", "update_select_item",
     "update_update", "update_update_total", "remove_delete",
     "remove_update_total", "update_transaction_update", "close_update",
     "close_select_items", "update_item_update", "get_transaction_items"}

\* the statement a handler is about to run fails (the pool times out, the
\* database is locked, the disk fails): .await? returns the error from the
\* handler, and what earlier statements wrote stays written.  A failure of a
\* handler's first statement, before which it has written nothing, is left out
StoreFailure(p) ==
    /\ pc[p] \in Statements
    /\ Respond(p, Err(DatabaseError))
    /\ UNCHANGED <<db, now, req, loc, inserted, printer_calls, client>>

\* ------------------------------------------------------------------ clock
Tick ==
    /\ now < MaxTime
    /\ now' = now + 1
    /\ UNCHANGED <<db, pc, req, loc, resp, inserted, printer_calls, client>>

\* ------------------------------------------------------------------ system
\* an empty store but for the catalog: items 1 and 2, created in stock; main
\* has searched for the printer once before serving
Init ==
    /\ items = [i \in ItemIds |-> [price |-> i, in_stock |-> TRUE]]
    /\ transactions = <<>>
    /\ transaction_items = {}
    /\ now = 0
    /\ pc = [p \in Reqs |-> "idle"]
    /\ req = [p \in Reqs |-> NoReq]
    /\ loc = [p \in Reqs |-> NoLoc]
    /\ resp = [p \in Reqs |-> NoResp]
    /\ inserted = 0
    /\ printer_calls = {PrinterCall("main", "find_printer")}
    /\ client = [c \in Reqs |-> NoClient]

\* the first statement of a handler, on the inputs D of one request; D also
\* bounds the ids Uuid::new_v4 hands out
Start(p, D) ==
    \/ /\ Cardinality(DOMAIN transactions) < D.max_tx
       /\ \E name \in D.customer_name : create_transaction(p, name)
    \/ /\ inserted + Cardinality(Inserting) < D.max_lines
       /\ \E t \in D.tx, i \in D.item, q \in D.quantity :
             add_select_transaction(p, t, i, q)
    \/ \E t \in D.tx, i \in D.item, q \in D.quantity :
          update_select_transaction(p, t, i, q)
    \/ \E t \in D.tx, i \in D.item : remove_select_transaction(p, t, i)
    \/ \E t \in D.tx, name \in D.new_name :
          update_transaction_select(p, t, name)
    \/ \E t \in D.tx, paid \in D.paid_amount : close_select(p, t, paid)
    \/ \E t \in D.tx : cancel_transaction(p, t)
    \/ \E u \in D.catalog : update_item_select(p, u.item, u.price, u.in_stock)

\* a later statement of a handler in flight
Step(p) ==
    \/ add_select_item(p)
    \/ add_insert(p)
    \/ add_update_total(p)
    \/ update_select_item(p)
    \/ update_update(p)
    \/ update_update_total(p)
    \/ remove_delete(p)
    \/ remove_update_total(p)
    \/ update_transaction_update(p)
    \/ close_update(p)
    \/ close_select_items(p)
    \/ close_spawn(p)
    \/ \E outcome \in PrintOutcomes : close_print(p, outcome)
    \/ update_item_update(p)
    \/ Return(p)

\* UpdateItemDto values: a new price for item 1, the in_stock toggle of item 2,
\* an id with no row
CatalogUpdates ==
    {[item |-> 1, price |-> Some(x), in_stock |-> None] : x \in Prices}
    \cup {[item |-> 2, price |-> None, in_stock |-> Some(b)] : b \in BOOLEAN}
    \cup {[item |-> AbsentItem, price |-> None, in_stock |-> None]}

\* one client that awaits each response before its next request; transaction
\* id 1 names no row until the client has created its transaction
SeqInputs ==
    [tx |-> {1}, item |-> ItemIds \cup {AbsentItem}, quantity |-> 0..MaxQty,
     paid_amount |-> 0..MaxPaid, customer_name |-> CustomerNames,
     new_name |-> CustomerNames,
     catalog |-> CatalogUpdates, max_tx |-> 1, max_lines |-> MaxLines]

SeqNext == Start(1, SeqInputs) \/ Step(1)

SeqSpec == Init /\ [][SeqNext]_vars

\* requests served concurrently, a statement at a time
ConcInputs ==
    [tx |-> {1}, item |-> {1}, quantity |-> {1, 2},
     paid_amount |-> {0, 1}, customer_name |-> {None},
     new_name |-> {Some("ann")},
     catalog |-> {[item |-> 1, price |-> None, in_stock |-> Some(FALSE)]},
     max_tx |-> 1, max_lines |-> ConcMaxLines]

Next == \E p \in Reqs : Start(p, ConcInputs) \/ Step(p)

Spec == Init /\ [][Next]_vars

\* two clients racing on one transaction with one line
RaceInputs ==
    [tx |-> {1}, item |-> {1}, quantity |-> {1},
     paid_amount |-> {1}, customer_name |-> {None},
     new_name |-> {Some("ann")},
     catalog |-> {[item |-> 1, price |-> None, in_stock |-> Some(TRUE)]},
     max_tx |-> 1, max_lines |-> 1]

RaceNext == \E p \in Reqs : Start(p, RaceInputs) \/ Step(p)

\* the runtime keeps polling every handler in flight, and the store and the
\* printer calls return
FairSpec == Init /\ [][RaceNext]_vars /\ \A p \in Reqs : WF_vars(Step(p))

\* one client, with the clock running between its statements
ClockInputs ==
    [tx |-> {1}, item |-> {1}, quantity |-> {1, 2},
     paid_amount |-> {2}, customer_name |-> {None},
     new_name |-> {Some("ann")},
     catalog |-> {[item |-> 1, price |-> Some(2), in_stock |-> None]},
     max_tx |-> 1, max_lines |-> 1]

ClockNext == Tick \/ Start(1, ClockInputs) \/ Step(1)

ClockSpec == Init /\ [][ClockNext]_vars

\* one client working on two transactions
TwoTxInputs ==
    [tx |-> {1, 2}, item |-> {1}, quantity |-> {1, 2},
     paid_amount |-> {2}, customer_name |-> CustomerNames,
     new_name |-> {Some("ann")},
     catalog |-> {[item |-> 1, price |-> Some(2), in_stock |-> None]},
     max_tx |-> 2, max_lines |-> 2]

TwoTxNext == Start(1, TwoTxInputs) \/ Step(1)

TwoTxSpec == Init /\ [][TwoTxNext]_vars

\* two clients served concurrently, client p working on transaction p
PairInputs(p) ==
    [tx |-> {p}, item |-> {1}, quantity |-> {1},
     paid_amount |-> {1}, customer_name |-> {None},
     new_name |-> {Some("ann")},
     catalog |-> {[item |-> 1, price |-> Some(1), in_stock |-> None]},
     max_tx |-> 2, max_lines |-> 2]

PairNext == \E p \in Reqs : Start(p, PairInputs(p)) \/ Step(p)

PairSpec == Init /\ [][PairNext]_vars

\* ReportDateRange values over the readings of the clock; end <= start included
ReportWindows == {w \in (0..MaxTime) \X (0..(MaxTime + 1)) : w[1] <= w[2]}

\* one client selling items 1 and 2 in two transactions and asking for reports,
\* with the clock running
ReportInputs ==
    [tx |-> {1, 2}, item |-> {1, 2}, quantity |-> {1},
     paid_amount |-> {8}, customer_name |-> {None},
     new_name |-> {None},
     catalog |-> {[item |-> 1, price |-> None, in_stock |-> Some(TRUE)]},
     max_tx |-> 2, max_lines |-> 2]

ReportNext ==
    \/ Tick
    \/ Start(1, ReportInputs)
    \/ Step(1)
    \/ \E w \in ReportWindows : generate_sales_report_items(1, w[1], w[2])
    \/ generate_sales_report_count(1)

ReportSpec == Init /\ [][ReportNext]_vars

\* a request made without the screen, on a task no browser task awaits
Direct(p) == client[p].pc = "idle"

\* the point-of-sale screen: one transaction, two browser tasks clicking add
\* and remove on its items, every request served a statement at a time
ClientNext ==
    \E p \in Reqs :
       \/ /\ Direct(p)
          /\ Cardinality(DOMAIN transactions) < 1
          /\ create_transaction(p, None)
       \/ Direct(p) /\ Return(p)
       \/ \E i \in ItemIds : add_item(p, 1, i)
       \/ \E i \in ItemIds : remove_item(p, 1, i)
       \/ route(p)
       \/ get_transaction_items(p)
       \/ add_select_item(p)
       \/ add_insert(p)
       \/ add_update_total(p)
       \/ update_select_item(p)
       \/ update_update(p)
       \/ update_update_total(p)
       \/ remove_delete(p)
       \/ remove_update_total(p)
       \/ receive(p)

ClientSpec == Init /\ [][ClientNext]_vars

\* one client over a store whose statements can fail
FaultInputs ==
    [tx |-> {1}, item |-> {1}, quantity |-> {1, 2},
     paid_amount |-> {0, 2}, customer_name |-> {None},
     new_name |-> {Some("ann")},
     catalog |-> {[item |-> 1, price |-> Some(2), in_stock |-> None]},
     max_tx |-> 1, max_lines |-> 2]

FaultNext == Start(1, FaultInputs) \/ Step(1) \/ StoreFailure(1)

FaultSpec == Init /\ [][FaultNext]_vars

\* the point-of-sale screen with add clicks alone: two browser tasks clicking
\* add on item 1 of transaction 1
ClickNext ==
    \E p \in Reqs :
       \/ /\ Direct(p)
          /\ Cardinality(DOMAIN transactions) < 1
          /\ create_transaction(p, None)
       \/ Direct(p) /\ Return(p)
       \/ add_item(p, 1, 1)
       \/ route(p)
       \/ get_transaction_items(p)
       \/ add_select_item(p)
       \/ add_insert(p)
       \/ add_update_total(p)
       \/ update_select_item(p)
       \/ update_update(p)
       \/ update_update_total(p)
       \/ receive(p)

ClickSpec == Init /\ [][ClickNext]_vars

\* ------------------------------------------------------------ properties
\* the spec's names for the failures IntoResponse reports
InvalidState == BadRequestNotOpen
Unavailable == BadRequestOutOfStock
InsufficientPaymentError == BadRequestInsufficient

LineItemOps ==
    {"add_transaction_item", "update_transaction_item", "remove_transaction_item"}

\* no statement of a request is pending: every handler has returned
Quiescent == \A p \in Reqs : pc[p] \in {"idle", "done"}

\* request p has just returned from handler op
Returned(p, op) == pc[p] = "done" /\ req[p].op = op

\* the line-item part of a transaction's record: id, quantity and prices
LineFields(lines, t) ==
    {<<l.id, l.item_id, l.quantity, l.unit_price, l.total_price>> : l \in LinesOf(lines, t)}

C2_NoLineAfterClose ==
    [][\A t \in DOMAIN transactions :
          transactions[t].status = "closed" =>
              {l.id : l \in LinesOf(transaction_items', t)}
                  \subseteq {l.id : l \in LinesOf(transaction_items, t)}]_vars

\* C3: a request issued on a transaction that is already closed or cancelled
\* fails with InvalidState and changes no transaction and no line.
C3_TerminalRejects ==
    [][\A p \in Reqs :
          (/\ pc[p] = "idle"
           /\ pc'[p] # "idle"
           /\ req'[p].op \in LineItemOps \cup {"update_transaction",
                                              "close_transaction", "cancel_transaction"}
           /\ req'[p].tx \in DOMAIN transactions
           /\ transactions[req'[p].tx].status \in {"closed", "cancelled"})
          => /\ pc'[p] = "done"
             /\ resp'[p] = Err(InvalidState)
             /\ transactions' = transactions
             /\ transaction_items' = transaction_items]_vars

\* C3 witness: a close of an already closed transaction has been refused.
C3_Witness ==
    /\ Returned(1, "close_transaction")
    /\ resp[1] = Err(InvalidState)
    /\ req[1].tx \in DOMAIN transactions
    /\ transactions[req[1].tx].status = "closed"
    /\ LinesOf(transaction_items, req[1].tx) # {}

\* C4: the stored status of a transaction never leaves closed or cancelled.
C4_StatusMonotone ==
    [][\A t \in DOMAIN transactions :
          transactions[t].status \in {"closed", "cancelled"} =>
              transactions'[t].status = transactions[t].status]_vars

\* C5: with requests executed one at a time, a close of an open transaction
\* is refused with InsufficientPayment, changing nothing, exactly when
\* paid_amount < total; otherwise it succeeds, the transaction is closed, and
\* the reported change_amount is paid_amount - total >= 0.
C5_CloseSettlesPayment ==
    /\ [](\A p \in Reqs :
            (Returned(p, "close_transaction") /\ req[p].tx \in DOMAIN transactions) =>
                LET tx == transactions[req[p].tx]
                    paid == req[p].paid_amount
                IN  /\ tx.status = "open" =>
                           /\ resp[p] = Err(InsufficientPaymentError)
                           /\ paid < tx.total
                    /\ resp[p].status = InsufficientPaymentError =>
                           tx.status = "open" /\ paid < tx.total
                    /\ resp[p].status = Ok =>
                           /\ tx.status = "closed"
                           /\ paid >= tx.total
                           /\ resp[p].change_amount = Some(paid - tx.total)
                           /\ paid - tx.total >= 0
                           /\ resp[p].body = Some(tx))
    /\ [][\A p \in Reqs :
            (/\ pc[p] = "idle"
             /\ pc'[p] # "idle"
             /\ req'[p].op = "close_transaction"
             /\ OpenTransaction(transactions, req'[p].tx))
            => IF req'[p].paid_amount < transactions[req'[p].tx].total
               THEN /\ pc'[p] = "done"
                    /\ resp'[p] = Err(InsufficientPaymentError)
                    /\ transactions' = transactions
                    /\ transaction_items' = transaction_items
               ELSE pc'[p] = "close_update"]_vars

\* C5 witness: a close with paid_amount above a non-zero total has succeeded
\* and reports the difference as change.
C5_Witness ==
    /\ Returned(1, "close_transaction")
    /\ resp[1].status = Ok
    /\ transactions[req[1].tx].total = 2
    /\ req[1].paid_amount = 3
    /\ resp[1].change_amount = Some(1)

\* C6: once a transaction is closed, its total, paid_amount, change_amount
\* and closed_at and the set of its lines (quantity, unit_price, total_price)
\* never change again, whatever requests were in flight at the close.
C6_ClosedRecordFrozen ==
    [][\A t \in DOMAIN transactions :
          transactions[t].status = "closed" =>
              /\ transactions'[t].total = transactions[t].total
              /\ transactions'[t].paid_amount = transactions[t].paid_amount
              /\ transactions'[t].change_amount = transactions[t].change_amount
              /\ transactions'[t].closed_at = transactions[t].closed_at
              /\ LineFields(transaction_items', t) = LineFields(transaction_items, t)]_vars

\* C7: in every reachable state, paid_amount, change_amount and closed_at of
\* a transaction are all set if its status is closed and all unset if it is
\* open or cancelled.
C7_PaymentFieldsIffClosed ==
    \A t \in DOMAIN transactions :
        LET tx == transactions[t]
        IN  IF tx.status = "closed"
            THEN tx.paid_amount # None /\ tx.change_amount # None /\ tx.closed_at # None
            ELSE tx.paid_amount = None /\ tx.change_amount = None /\ tx.closed_at = None

\* C7 witness: a cancel that raced a close returned success, and the
\* transaction is closed with its three payment fields set.
C7_Witness ==
    \E p \in Reqs :
        /\ Returned(p, "cancel_transaction")
        /\ resp[p].status = Ok
        /\ transactions[req[p].tx].status = "closed"
        /\ transactions[req[p].tx].paid_amount # None
        /\ transactions[req[p].tx].closed_at # None

\* C8 as stated: an add-item request that names an out-of-stock catalog item
\* always fails with Unavailable.
C8_AlwaysUnavailable ==
    \A p \in Reqs :
        (/\ Returned(p, "add_transaction_item")
         /\ req[p].item \in DOMAIN items
         /\ ~items[req[p].item].in_stock)
        => resp[p] = Err(Unavailable)

\* C8 amended: with requests executed one at a time, an add-item request that
\* names an out-of-stock catalog item creates no line and changes no
\* transaction; it fails with Unavailable when the transaction exists and is
\* open, and with InvalidState otherwise.
C8_OutOfStockRejected ==
    /\ [](\A p \in Reqs :
            (/\ Returned(p, "add_transaction_item")
             /\ req[p].item \in DOMAIN items
             /\ ~items[req[p].item].in_stock)
            => resp[p] = IF OpenTransaction(transactions, req[p].tx)
                         THEN Err(Unavailable) ELSE Err(InvalidState))
    /\ [][\A p \in Reqs :
            (/\ pc'[p] # "idle"
             /\ req'[p].op = "add_transaction_item"
             /\ req'[p].item \in DOMAIN items
             /\ ~items[req'[p].item].in_stock)
            => /\ transactions' = transactions
               /\ transaction_items' = transaction_items]_vars

\* C8 witness: an add of an out-of-stock item to an open transaction that
\* already holds a line has been refused with Unavailable.
C8_Witness ==
    /\ Returned(1, "add_transaction_item")
    /\ resp[1] = Err(Unavailable)
    /\ ~items[req[1].item].in_stock
    /\ transactions[req[1].tx].status = "open"
    /\ transactions[req[1].tx].total > 0

\* C9: with requests executed one at a time, an add-item request on an open
\* transaction that names an item id with no catalog row fails with NotFound,
\* creates no line and leaves every transaction (so the total) unchanged.
C9_UnknownItemNotFound ==
    /\ [](\A p \in Reqs :
            (/\ Returned(p, "add_transaction_item")
             /\ req[p].item \notin DOMAIN items
             /\ OpenTransaction(transactions, req[p].tx))
            => resp[p] = Err(NotFound))
    /\ [][\A p \in Reqs :
            (/\ pc'[p] # "idle"
             /\ req'[p].op = "add_transaction_item"
             /\ req'[p].item \notin DOMAIN items)
            => /\ transactions' = transactions
               /\ transaction_items' = transaction_items]_vars

\* C9 witness: an add of an unknown item id to an open transaction with a
\* non-zero total has been refused with NotFound.
C9_Witness ==
    /\ Returned(1, "add_transaction_item")
    /\ resp[1] = Err(NotFound)
    /\ req[1].item = AbsentItem
    /\ transactions[req[1].tx].status = "open"
    /\ transactions[req[1].tx].total > 0

\* C10: the receipt task's outcome (printed, no printer, I/O error, panic)
\* changes neither what a committed close reports, which is the row its
\* settlement returned and the change it computed, nor anything stored.
C10_EmissionDoesNotAlterClose ==
    /\ [](\A p \in Reqs :
            (Returned(p, "close_transaction") /\ loc[p].printed # "none") =>
                /\ resp[p].status = Ok
                /\ resp[p].body = loc[p].row
                /\ resp[p].body[1].status = "closed"
                /\ resp[p].body[1].paid_amount = Some(req[p].paid_amount)
                /\ resp[p].change_amount = Some(loc[p].change)
                /\ resp[p].change_amount = resp[p].body[1].change_amount)
    /\ [][\A p \in Reqs :
            (pc[p] = "close_print" /\ pc'[p] # "close_print")
            => /\ loc'[p].printed \in PrintOutcomes
               /\ pc'[p] = "done"
               /\ db' = db]_vars

\* C10 witness: a close whose receipt task panicked has returned success.
C10_Witness ==
    \E p \in Reqs :
        /\ Returned(p, "close_transaction")
        /\ loc[p].printed = "panicked"
        /\ resp[p].status = Ok
        /\ resp[p].change_amount = Some(1)

\* C11: a receipt emission is attempted only by a close request whose own
\* settlement write has committed (the transaction is stored closed with its
\* payment fields, and the request holds the row its UPDATE returned), at
\* most once per close request (the task is started once and ends once), and
\* never by a close request that fails the open-status or the payment guard.
C11_EmissionAfterCommitOnce ==
    /\ [](\A p \in Reqs :
            /\ loc[p].printed # "none" =>
                   /\ req[p].op = "close_transaction"
                   /\ pc[p] \in {"close_print", "done"}
                   /\ pc[p] = "done" => resp[p].status = Ok
            /\ (Returned(p, "close_transaction") /\ resp[p].status # Ok) =>
                   loc[p].printed = "none")
    /\ [][\A p \in Reqs :
            /\ (loc'[p].printed # loc[p].printed /\ loc'[p].printed # "none") =>
                   IF loc[p].printed = "none"
                   THEN /\ loc'[p].printed = "running"
                        /\ pc[p] = "close_spawn"
                        /\ req[p].op = "close_transaction"
                        /\ loc[p].row # None
                        /\ loc[p].row[1].status = "closed"
                        /\ loc[p].row[1].paid_amount = Some(req[p].paid_amount)
                        /\ loc[p].row[1].change_amount = Some(loc[p].change)
                        /\ loc[p].row[1].closed_at # None
                        /\ transactions[req[p].tx].status = "closed"
                        /\ transactions[req[p].tx].paid_amount # None
                        /\ transactions' = transactions
                   ELSE /\ loc[p].printed = "running"
                        /\ loc'[p].printed \in PrintOutcomes
                        /\ pc'[p] = "done"
            /\ (/\ pc[p] = "idle"
                /\ pc'[p] # "idle"
                /\ req'[p].op = "close_transaction"
                /\ \/ req'[p].tx \notin DOMAIN transactions
                   \/ transactions[req'[p].tx].status # "open"
                   \/ req'[p].paid_amount < transactions[req'[p].tx].total)
               => /\ pc'[p] = "done"
                  /\ resp'[p].status # Ok
                  /\ loc'[p].printed = "none"]_vars

\* C11 witness: one close has settled and printed its receipt while another
\* close of the same transaction was refused for insufficient payment and
\* attempted no emission.
C11_Witness ==
    \E p, q \in Reqs :
        /\ Returned(p, "close_transaction")
        /\ loc[p].printed = "printed"
        /\ transactions[req[p].tx].status = "closed"
        /\ Returned(q, "close_transaction")
        /\ resp[q] = Err(InsufficientPaymentError)
        /\ loc[q].printed = "none"

\* C12: with requests executed one at a time, an add-item(item_id, quantity)
\* on an open transaction whose item is in the catalog and in stock succeeds:
\* its INSERT adds exactly one new line, owned by that transaction, with the
\* given quantity, unit_price the catalog price of the item and total_price
\* their product; no other step of the request touches a line; and when it
\* has returned the transaction's total is the sum over its lines, the new
\* one included.
C12_AddCreatesOneLine ==
    /\ [](\A p \in Reqs :
            (Returned(p, "add_transaction_item") /\ resp[p].status = Ok) =>
                /\ resp[p].body # None
                /\ resp[p].body[1] \in LinesOf(transaction_items, req[p].tx)
                /\ transactions[req[p].tx].total =
                       SumTotalPrice(LinesOf(transaction_items, req[p].tx))
                /\ transactions[req[p].tx].total >= resp[p].body[1].total_price)
    /\ [][\A p \in Reqs :
            /\ (pc[p] = "add_insert" /\ pc'[p] # "add_insert") =>
                   \E l \in transaction_items' :
                       /\ transaction_items' = transaction_items \cup {l}
                       /\ l \notin transaction_items
                       /\ \A k \in transaction_items : k.id # l.id
                       /\ l.transaction_id = req[p].tx
                       /\ l.item_id = req[p].item
                       /\ l.quantity = req[p].quantity
                       /\ l.unit_price = items[req[p].item].price
                       /\ l.total_price = l.unit_price * l.quantity
                       /\ resp'[p].status # Ok
            /\ (req'[p].op = "add_transaction_item" /\ pc[p] # "add_insert") =>
                   transaction_items' = transaction_items
            /\ (/\ pc[p] = "idle"
                /\ req'[p].op = "add_transaction_item"
                /\ OpenTransaction(transactions, req'[p].tx)) =>
                   pc'[p] = "add_select_item"
            /\ (/\ pc[p] = "add_select_item"
                /\ pc'[p] # "add_select_item"
                /\ req[p].item \in DOMAIN items
                /\ items[req[p].item].in_stock) =>
                   pc'[p] = "add_insert"
            /\ (pc[p] = "add_update_total" /\ pc'[p] # "add_update_total") =>
                   /\ pc'[p] = "done"
                   /\ resp'[p] = OkBody(loc[p].row)
                   /\ loc[p].row[1] \in transaction_items]_vars

\* C12 witness: an add of quantity 2 of item 1, after its catalog price was
\* raised from 1 to 2, has returned a line with unit_price 2 and total_price
\* 4 next to an older line of the transaction, and the total covers both.
C12_Witness ==
    /\ Returned(1, "add_transaction_item")
    /\ resp[1].status = Ok
    /\ resp[1].body[1].item_id = 1
    /\ resp[1].body[1].quantity = 2
    /\ resp[1].body[1].unit_price = 2
    /\ resp[1].body[1].total_price = 4
    /\ Cardinality(LinesOf(transaction_items, req[1].tx)) = 2
    /\ transactions[req[1].tx].total > 4

\* the lines of `lines` that are not a line of item i in transaction t
OtherLines(lines, t, i) == lines \ LinesFor(lines, t, i)

\* C13: with requests executed one at a time, update-item(item_id,
\* new_quantity) fails with InvalidState if the transaction is not open, and
\* on an open transaction with NotFound if the item id is unknown, with
\* Unavailable if the item is out of stock and with NotFound if the
\* transaction has no line for the item, changing nothing in each case;
\* otherwise it sets the quantity of the line(s) of that item to
\* new_quantity, the unit_price to the current catalog price and the
\* total_price to their product, leaves the other lines alone, and the total
\* is then recomputed.
C13_UpdateItemContract ==
    /\ [](\A p \in Reqs :
            Returned(p, "update_transaction_item") =>
                LET t == req[p].tx
                    i == req[p].item
                    hit == LinesFor(transaction_items, t, i)
                IN  IF ~(t \in DOMAIN transactions /\ transactions[t].status = "open")
                    THEN resp[p] = Err(InvalidState)
                    ELSE IF i \notin DOMAIN items THEN resp[p] = Err(NotFound)
                    ELSE IF ~items[i].in_stock THEN resp[p] = Err(Unavailable)
                    ELSE IF hit = {} THEN resp[p] = Err(NotFound)
                    ELSE /\ resp[p].status = Ok
                         /\ resp[p].body[1] \in hit
                         /\ \A l \in hit :
                               /\ l.quantity = req[p].quantity
                               /\ l.unit_price = items[i].price
                               /\ l.total_price = items[i].price * req[p].quantity
                         /\ transactions[t].total =
                                SumTotalPrice(LinesOf(transaction_items, t)))
    /\ [][\A p \in Reqs :
            /\ (/\ req'[p].op = "update_transaction_item"
                /\ pc[p] \in {"idle", "update_select_item"}) =>
                   db' = db
            /\ (pc[p] = "update_update" /\ pc'[p] # "update_update") =>
                   LET t == req[p].tx
                       i == req[p].item
                   IN  /\ transactions' = transactions
                       /\ OtherLines(transaction_items', t, i)
                              = OtherLines(transaction_items, t, i)
                       /\ {l.id : l \in LinesFor(transaction_items', t, i)}
                              = {l.id : l \in LinesFor(transaction_items, t, i)}
                       /\ IF LinesFor(transaction_items, t, i) = {}
                          THEN /\ resp'[p] = Err(NotFound)
                               /\ transaction_items' = transaction_items
                          ELSE /\ pc'[p] = "update_update_total"
                               /\ \A l \in LinesFor(transaction_items', t, i) :
                                     /\ l.quantity = req[p].quantity
                                     /\ l.unit_price = items[i].price
                                     /\ l.total_price = items[i].price * req[p].quantity
            /\ (pc[p] = "update_update_total" /\ pc'[p] # "update_update_total") =>
                   /\ transaction_items' = transaction_items
                   /\ transactions'[req[p].tx].total =
                          SumTotalPrice(LinesOf(transaction_items, req[p].tx))
                   /\ resp'[p].status = Ok]_vars

\* C13 witness: a line of item 2 (price 2) taken from quantity 1 to 2 by an
\* update-item that has returned: total_price 4, and the total went from 2
\* to 4.
C13_Witness ==
    /\ Returned(1, "update_transaction_item")
    /\ resp[1].status = Ok
    /\ req[1].item = 2
    /\ req[1].quantity = 2
    /\ resp[1].body[1].unit_price = 2
    /\ resp[1].body[1].total_price = 4
    /\ LinesOf(transaction_items, req[1].tx) = {resp[1].body[1]}
    /\ transactions[req[1].tx].total = 4

\* C14: with requests executed one at a time, remove-item(item_id) on an
\* open transaction deletes the line(s) of that item in that transaction and
\* no other line, then recomputes the total; when the transaction has no
\* line of the item it fails with NotFound and changes neither lines nor
\* total; whether the item is in stock, or in the catalog at all, plays no
\* part.
C14_RemoveItemContract ==
    /\ [](\A p \in Reqs :
            (/\ Returned(p, "remove_transaction_item")
             /\ req[p].tx \in DOMAIN transactions
             /\ transactions[req[p].tx].status = "open") =>
                /\ resp[p] \in {OkBody(None), Err(NotFound)}
                /\ {l \in transaction_items : l.transaction_id = req[p].tx
                                              /\ l.item_id = req[p].item} = {}
                /\ transactions[req[p].tx].total =
                       SumTotalPrice(LinesOf(transaction_items, req[p].tx)))
    /\ [][\A p \in Reqs :
            /\ (/\ pc[p] = "idle"
                /\ req'[p].op = "remove_transaction_item") =>
                   /\ db' = db
                   /\ IF req'[p].tx \in DOMAIN transactions
                         /\ transactions[req'[p].tx].status = "open"
                      THEN pc'[p] = "remove_delete"
                      ELSE resp'[p] = Err(InvalidState)
            /\ (pc[p] = "remove_delete" /\ pc'[p] # "remove_delete") =>
                   LET hit == {l \in transaction_items :
                                  l.transaction_id = req[p].tx /\ l.item_id = req[p].item}
                   IN  /\ transactions' = transactions
                       /\ items' = items
                       /\ transaction_items' = transaction_items \ hit
                       /\ IF hit = {}
                          THEN pc'[p] = "done" /\ resp'[p] = Err(NotFound)
                          ELSE pc'[p] = "remove_update_total"
            /\ (pc[p] = "remove_update_total" /\ pc'[p] # "remove_update_total") =>
                   /\ transaction_items' = transaction_items
                   /\ transactions'[req[p].tx].total =
                          SumTotalPrice(LinesOf(transaction_items, req[p].tx))
                   /\ resp'[p] = OkBody(None)]_vars

\* C14 witness: the line of item 2 has been removed while item 2 is out of
\* stock; the line of item 1 is still there and the total is its total_price.
C14_Witness ==
    /\ Returned(1, "remove_transaction_item")
    /\ resp[1].status = Ok
    /\ req[1].item = 2
    /\ ~items[2].in_stock
    /\ \E l \in transaction_items :
          /\ LinesOf(transaction_items, req[1].tx) = {l}
          /\ l.item_id = 1
          /\ l.total_price > 0
          /\ transactions[req[1].tx].total = l.total_price

\* C15: a cancel request writes exactly when the stored status of its
\* transaction is open as its statement executes: it then sets the status to
\* cancelled and updated_at to the current time, returns the row, and leaves
\* paid_amount, change_amount, closed_at, total, customer_name, created_at
\* and every line as they were; on a closed, cancelled or missing
\* transaction it fails and changes nothing; and no other step turns a
\* status into cancelled.
C15_CancelContract ==
    [][/\ \A p \in Reqs :
            (pc[p] = "idle" /\ req'[p].op = "cancel_transaction") =>
                LET t == req'[p].tx
                IN  /\ transaction_items' = transaction_items
                    /\ items' = items
                    /\ pc'[p] = "done"
                    /\ IF t \in DOMAIN transactions /\ transactions[t].status = "open"
                       THEN /\ transactions' =
                                  [transactions EXCEPT ![t].status = "cancelled",
                                                       ![t].updated_at = now]
                            /\ resp'[p] = OkBody(Some(transactions'[t]))
                       ELSE /\ transactions' = transactions
                            /\ resp'[p] = Err(InvalidState)
       /\ \A t \in DOMAIN transactions :
            (transactions'[t].status = "cancelled"
                /\ transactions[t].status # "cancelled") =>
                /\ transactions[t].status = "open"
                /\ \E p \in Reqs : /\ pc[p] = "idle"
                                   /\ req'[p].op = "cancel_transaction"
                                   /\ req'[p].tx = t]_vars

\* C15 witness: a cancel at time 1 of a transaction created at time 0 has
\* returned: the transaction is cancelled with updated_at = 1, it keeps its
\* line and its non-zero total, and its payment fields are unset.
C15_Witness ==
    /\ Returned(1, "cancel_transaction")
    /\ resp[1].status = Ok
    /\ transactions[req[1].tx].status = "cancelled"
    /\ transactions[req[1].tx].created_at = 0
    /\ transactions[req[1].tx].updated_at = 1
    /\ transactions[req[1].tx].total > 0
    /\ LinesOf(transaction_items, req[1].tx) # {}
    /\ transactions[req[1].tx].paid_amount = None
    /\ transactions[req[1].tx].closed_at = None

\* C16: the customer_name of a transaction whose stored status is closed or
\* cancelled is never modified, whatever rename was in flight when the
\* transaction was closed or cancelled.
C16_RenameOnlyWhileOpen ==
    [][\A t \in DOMAIN transactions :
          transactions[t].status \in {"closed", "cancelled"} =>
              transactions'[t].customer_name = transactions[t].customer_name]_vars

\* C17: a create request succeeds: it adds one transaction under an id that
\* no existing transaction has, with status open, total 0, no lines, and
\* paid_amount, change_amount and closed_at unset, returns it, and changes
\* no existing transaction and no line.
C17_CreateContract ==
    [][\A p \in Reqs :
          (pc[p] = "idle" /\ req'[p].op = "create_transaction") =>
              \E id \in DOMAIN transactions' :
                  /\ id \notin DOMAIN transactions
                  /\ DOMAIN transactions' = DOMAIN transactions \cup {id}
                  /\ \A t \in DOMAIN transactions : transactions'[t] = transactions[t]
                  /\ transactions'[id].status = "open"
                  /\ transactions'[id].total = 0
                  /\ transactions'[id].paid_amount = None
                  /\ transactions'[id].change_amount = None
                  /\ transactions'[id].closed_at = None
                  /\ transactions'[id].customer_name = req'[p].customer_name
                  /\ {l \in transaction_items' : l.transaction_id = id} = {}
                  /\ transaction_items' = transaction_items
                  /\ items' = items
                  /\ pc'[p] = "done"
                  /\ resp'[p] = OkBody(Some(transactions'[id]))]_vars

\* C17 witness: a second transaction has been created, open and empty with
\* total 0, next to a first one that is closed and keeps its line and its
\* payment.
C17_Witness ==
    /\ Returned(1, "create_transaction")
    /\ resp[1].status = Ok
    /\ DOMAIN transactions = {1, 2}
    /\ transactions[1].status = "closed"
    /\ transactions[1].total > 0
    /\ LinesOf(transaction_items, 1) # {}
    /\ resp[1].body = Some(transactions[2])
    /\ transactions[2].status = "open"
    /\ transactions[2].total = 0
    /\ LinesOf(transaction_items, 2) = {}

\* C18: no step of a catalog update-item request changes a transaction or a
\* transaction line, so the unit_price and total_price of the lines that
\* reference the item and every total stay as they were; a line or a total
\* changes only in a step of an add-item, update-item or remove-item request.
C18_CatalogPriceLeavesLines ==
    [][/\ \A p \in Reqs :
            (req'[p].op = "update_item" /\ pc[p] # "done") =>
                /\ transaction_items' = transaction_items
                /\ transactions' = transactions
       /\ (\/ transaction_items' # transaction_items
           \/ \E t \in DOMAIN transactions :
                 transactions'[t].total # transactions[t].total) =>
              \E p \in Reqs : /\ req[p].op \in LineItemOps
                              /\ pc'[p] # pc[p]]_vars

\* C18 witness: the price of item 1 has just been set to 2 by a catalog
\* update while a line of item 1 still carries unit_price 1 and the
\* transaction's total is still that line's total_price.
C18_Witness ==
    /\ Returned(1, "update_item")
    /\ resp[1].status = Ok
    /\ req[1].item = 1
    /\ items[1].price = 2
    /\ \E t \in DOMAIN transactions : \E l \in transaction_items :
          /\ LinesOf(transaction_items, t) = {l}
          /\ l.item_id = 1
          /\ l.unit_price = 1
          /\ l.total_price = l.quantity
          /\ l.quantity > 0
          /\ transactions[t].total = l.total_price

\* the statements that run update_transaction_total
TotalLabels == {"add_update_total", "update_update_total", "remove_update_total"}

\* C19: in every reachable state and for every transaction id, recomputing
\* the total changes only the total and updated_at of that transaction, and
\* recomputing it a second time over the same lines gives the state of the
\* first run but for updated_at; and every recomputation a handler executes
\* writes the sum of the lines and the time, and only the time when the
\* stored total already is that sum.
C19_RecomputeIdempotent ==
    /\ [](\A t \in DOMAIN transactions \cup {Cardinality(DOMAIN transactions) + 1} :
          \A ts1, ts2 \in 0..MaxTime :
            LET once == UpdateTransactionTotal(transactions, transaction_items, t, ts1)
                twice == UpdateTransactionTotal(once, transaction_items, t, ts2)
            IN  /\ DOMAIN once = DOMAIN transactions
                /\ \A u \in DOMAIN transactions :
                      once[u] = IF u = t
                                THEN [transactions[u] EXCEPT !.total = once[u].total,
                                                             !.updated_at = ts1]
                                ELSE transactions[u]
                /\ DOMAIN twice = DOMAIN once
                /\ \A u \in DOMAIN once :
                      twice[u] = IF u = t THEN [once[u] EXCEPT !.updated_at = ts2]
                                 ELSE once[u]
                /\ ts1 = ts2 => twice = once)
    /\ [][\A p \in Reqs :
            (pc[p] \in TotalLabels /\ pc'[p] # pc[p]) =>
                LET t == req[p].tx
                    sum == SumTotalPrice({l \in transaction_items : l.transaction_id = t})
                IN  /\ transaction_items' = transaction_items
                    /\ transactions' = [transactions EXCEPT ![t].total = sum,
                                                            ![t].updated_at = now]
                    /\ transactions[t].total = sum =>
                           transactions' = [transactions EXCEPT ![t].updated_at = now]]_vars

\* C19 witness: two update-item requests have both written the line, the
\* last write being that of the request still in flight, and the other
\* request's recomputation has already run over that line: the recomputation
\* about to run is a second one over unchanged lines.
C19_Witness ==
    \E p, q \in Reqs :
        /\ Returned(p, "update_transaction_item")
        /\ resp[p].status = Ok
        /\ pc[q] = "update_update_total"
        /\ req[q].quantity # req[p].quantity
        /\ loc[q].row[1] \in transaction_items
        /\ LinesOf(transaction_items, req[q].tx) = {loc[q].row[1]}
        /\ transactions[req[q].tx].total = loc[q].row[1].total_price
        /\ transactions[req[q].tx].total # resp[p].body[1].total_price

\* request p is an add-item, update-item or remove-item that has not returned
LineItemInFlight(p) == req[p].op \in LineItemOps /\ pc[p] \notin {"idle", "done"}

\* C20: under every interleaving of the statements of concurrent requests,
\* whenever no add-item, update-item or remove-item request is in flight,
\* the stored total of every transaction is the sum of total_price over its
\* current lines; and a request that has written a line has its own
\* recomputation still ahead of it, which reads the lines as they then are.
C20_TotalConsistentWhenIdle ==
    /\ []((\A p \in Reqs : ~LineItemInFlight(p)) =>
            \A t \in DOMAIN transactions :
                transactions[t].total =
                    SumTotalPrice({l \in transaction_items : l.transaction_id = t}))
    /\ [][/\ transaction_items' # transaction_items =>
                \E p \in Reqs : /\ pc[p] \in {"add_insert", "update_update",
                                              "remove_delete"}
                                /\ pc'[p] \in TotalLabels
                                /\ req'[p] = req[p]
          /\ \A p \in Reqs :
                (pc[p] \in TotalLabels /\ pc'[p] # pc[p]) =>
                    /\ pc'[p] = "done"
                    /\ transactions'[req[p].tx].total =
                           SumTotalPrice({l \in transaction_items' :
                                             l.transaction_id = req[p].tx})]_vars

\* C20 witness: two add-item requests with different quantities have both
\* returned successfully on an open transaction; it holds their two lines
\* and its total covers both.
C20_Witness ==
    \E p, q \in Reqs :
        /\ p # q
        /\ Returned(p, "add_transaction_item")
        /\ Returned(q, "add_transaction_item")
        /\ resp[p].status = Ok
        /\ resp[q].status = Ok
        /\ req[p].quantity # req[q].quantity
        /\ transactions[req[p].tx].status = "open"
        /\ LinesOf(transaction_items, req[p].tx) = {resp[p].body[1], resp[q].body[1]}
        /\ transactions[req[p].tx].total =
               resp[p].body[1].total_price + resp[q].body[1].total_price

\* the handlers that take a transaction id in their path
TransactionOps ==
    LineItemOps \cup {"update_transaction", "close_transaction", "cancel_transaction"}

\* C21: a step of an add-item, update-item, remove-item, rename, close or
\* cancel request on transaction A leaves the row and the lines of every
\* other transaction B as they were, under every interleaving with the
\* requests on B; and what the request's first statement decides (refused as
\* not open, refused for underpayment, or carried on) is decided by A's own
\* row, whatever state B is in.
C21_OtherTransactionUntouched ==
    [][\A p \in Reqs :
          LET op == IF pc[p] = "idle" THEN req'[p].op ELSE req[p].op
              a == IF pc[p] = "idle" THEN req'[p].tx ELSE req[p].tx
          IN  (pc'[p] # pc[p] /\ op \in TransactionOps) =>
                /\ \A b \in DOMAIN transactions \ {a} :
                      /\ transactions'[b] = transactions[b]
                      /\ {l \in transaction_items' : l.transaction_id = b}
                             = {l \in transaction_items : l.transaction_id = b}
                /\ pc[p] = "idle" =>
                      IF ~(a \in DOMAIN transactions /\ transactions[a].status = "open")
                      THEN pc'[p] = "done" /\ resp'[p] = Err(InvalidState)
                      ELSE IF op = "cancel_transaction"
                      THEN resp'[p].status = Ok /\ transactions'[a].status = "cancelled"
                      ELSE IF op = "close_transaction"
                              /\ req'[p].paid_amount < transactions[a].total
                      THEN resp'[p] = Err(InsufficientPaymentError)
                      ELSE pc'[p] # "done"]_vars

\* C21 witness: an add-item on transaction 1 has returned successfully while
\* a close of transaction 2 is between its settlement and its response;
\* transaction 2 is closed with its own line and total, transaction 1 is
\* open with the new line.
C21_Witness ==
    /\ Returned(1, "add_transaction_item")
    /\ resp[1].status = Ok
    /\ req[1].tx = 1
    /\ req[2].op = "close_transaction"
    /\ req[2].tx = 2
    /\ pc[2] \in {"close_select_items", "close_print"}
    /\ transactions[1].status = "open"
    /\ transactions[1].total = 1
    /\ transactions[2].status = "closed"
    /\ transactions[2].total = 1
    /\ Cardinality(LinesOf(transaction_items, 1)) = 1
    /\ Cardinality(LinesOf(transaction_items, 2)) = 1

\* C22: two close requests on the same transaction never both succeed.
C22_AtMostOneCloseSucceeds ==
    \A p, q \in Reqs :
        (/\ p # q
         /\ Returned(p, "close_transaction")
         /\ Returned(q, "close_transaction")
         /\ req[p].tx = req[q].tx)
        => ~(resp[p].status = Ok /\ resp[q].status = Ok)

\* C23: an add-item, update-item, remove-item, rename, close or cancel
\* request on a transaction id that has no row fails with NotFound.
C23_MissingTransactionNotFound ==
    \A p \in Reqs :
        (/\ pc[p] = "done"
         /\ req[p].op \in TransactionOps
         /\ req[p].tx \notin DOMAIN transactions)
        => resp[p] = Err(NotFound)

\* the transactions a report of the window [start, end) is about: closed,
\* with start <= closed_at < end
InWindow(start, end) ==
    {t \in DOMAIN transactions :
        /\ transactions[t].status = "closed"
        /\ transactions[t].closed_at # None
        /\ start <= transactions[t].closed_at[1]
        /\ transactions[t].closed_at[1] < end}

\* C24: with requests executed one at a time, a sales report returned for
\* the window [start, end) has one row per item that has a line in a
\* transaction closed with start <= closed_at < end, with that item's
\* quantity, revenue and transaction count summed over exactly those lines;
\* its total_transactions is the number of those transactions and its
\* total_revenue and total_items_sold are the sums over those lines: lines
\* of open or cancelled transactions and of transactions closed before
\* start or at or after end contribute nothing.
C24_ReportCountsClosedInWindow ==
    \A p \in Reqs :
        (Returned(p, "generate_sales_report") /\ resp[p].status = Ok) =>
            LET rows == resp[p].body[1].items
                summary == resp[p].body[1].summary
                W == InWindow(req[p].start_date, req[p].end_date)
                L == {l \in transaction_items : l.transaction_id \in W}
                Of(i) == {l \in L : l.item_id = i}
            IN  /\ req[p].start_date < req[p].end_date
                /\ {rows[k].item_id : k \in DOMAIN rows} = {l.item_id : l \in L}
                /\ \A j, k \in DOMAIN rows :
                      rows[j].item_id = rows[k].item_id => j = k
                /\ \A k \in DOMAIN rows :
                      /\ rows[k].quantity_sold = SumField(Of(rows[k].item_id), "quantity")
                      /\ rows[k].total_revenue =
                             SumField(Of(rows[k].item_id), "total_price")
                      /\ rows[k].transaction_count =
                             Cardinality({l.transaction_id : l \in Of(rows[k].item_id)})
                /\ summary.total_transactions = Cardinality(W)
                /\ summary.total_revenue = SumField(L, "total_price")
                /\ summary.total_items_sold = SumField(L, "quantity")

\* C24 witness: a report for the window [0, 1) has returned while
\* transaction 1, closed at 0, holds a line of item 1 and transaction 2,
\* closed at 1, holds a line of item 2: the report has the one row of item 1
\* and counts one transaction.
C24_Witness ==
    /\ Returned(1, "generate_sales_report")
    /\ resp[1].status = Ok
    /\ req[1].start_date = 0
    /\ req[1].end_date = 1
    /\ DOMAIN transactions = {1, 2}
    /\ transactions[1].closed_at = Some(0)
    /\ transactions[2].closed_at = Some(1)
    /\ \E l \in transaction_items : l.transaction_id = 1 /\ l.item_id = 1
    /\ \E l \in transaction_items : l.transaction_id = 2 /\ l.item_id = 2
    /\ DOMAIN resp[1].body[1].items = {1}
    /\ resp[1].body[1].items[1].item_id = 1
    /\ resp[1].body[1].summary.total_transactions = 1
    /\ resp[1].body[1].summary.total_revenue = 1

\* the first position of a report's rows whose field f is maximal
FirstMax(rows, f) ==
    CHOOSE k \in DOMAIN rows :
        /\ \A j \in DOMAIN rows : rows[j][f] <= rows[k][f]
        /\ \A j \in DOMAIN rows : j < k => rows[j][f] < rows[k][f]

\* C25: in a returned report, top_selling_item (top_revenue_item) is the
\* item of the first row, in the order of the report's rows, whose
\* quantity_sold (total_revenue) is the largest, and both are absent when
\* the report has no rows.
C25_TopItemFirstOfTies ==
    \A p \in Reqs :
        (Returned(p, "generate_sales_report") /\ resp[p].status = Ok) =>
            LET rows == resp[p].body[1].items
                summary == resp[p].body[1].summary
            IN  IF DOMAIN rows = {}
                THEN summary.top_selling_item = None /\ summary.top_revenue_item = None
                ELSE /\ summary.top_selling_item =
                            Some(rows[FirstMax(rows, "quantity_sold")].item_id)
                     /\ summary.top_revenue_item =
                            Some(rows[FirstMax(rows, "total_revenue")].item_id)

\* C26: find_printer and print_receipt are called from the close path only:
\* every call made so far was made by close_transaction.
C26_PrinterOnlyFromClose ==
    \A c \in printer_calls : c.by = "close_transaction"

\* C27: a close request has a success response only once its receipt task
\* has ended (printed, no printer found, I/O error or panic); the step that
\* produces the response is the one in which the awaited task ends, and no
\* response exists while the task is running.
C27_ResponseAfterEmission ==
    /\ [](\A p \in Reqs :
            /\ (req[p].op = "close_transaction" /\ resp[p].status = Ok) =>
                   loc[p].printed \in PrintOutcomes
            /\ loc[p].printed = "running" =>
                   pc[p] = "close_print" /\ resp[p] = NoResp)
    /\ [][\A p \in Reqs :
            (/\ req[p].op = "close_transaction"
             /\ resp[p].status # Ok
             /\ resp'[p].status = Ok) =>
                /\ loc[p].printed = "running"
                /\ loc'[p].printed \in PrintOutcomes]_vars

\* C27 witness: a close whose receipt task ended with an I/O error has
\* returned success after the task was running.
C27_Witness ==
    \E p \in Reqs :
        /\ Returned(p, "close_transaction")
        /\ resp[p].status = Ok
        /\ loc[p].printed = "io_error"
        /\ PrinterCall("close_transaction", "print_receipt") \in printer_calls

\* C28: a transaction never holds two lines for the same item.
C28_OneLinePerItem ==
    \A l, k \in transaction_items :
        (l.transaction_id = k.transaction_id /\ l.item_id = k.item_id) => l = k

\* C29: every stored transaction line has a quantity above 0 and every
\* transaction total is at least 0.
C29_PositiveQuantities ==
    /\ \A l \in transaction_items : l.quantity > 0
    /\ \A t \in DOMAIN transactions : transactions[t].total >= 0

\* C30: a close request that has passed the open check with paid_amount >=
\* total eventually returns a success response with its receipt task ended,
\* and the response is a success whichever way the task ends: receipt
\* printed, no printer found, I/O error from print_receipt, or panic.
C30_CloseEventuallySucceeds ==
    /\ \A p \in Reqs :
          (pc[p] = "close_update") ~>
              (/\ Returned(p, "close_transaction")
               /\ resp[p].status = Ok
               /\ loc[p].printed \in PrintOutcomes)
    /\ \A p \in Reqs :
          (pc[p] = "close_print") ~> (pc[p] = "done" /\ resp[p].status = Ok)
    /\ [](\A p \in Reqs : \A o \in PrintOutcomes :
            (Returned(p, "close_transaction") /\ loc[p].printed = o) =>
                resp[p].status = Ok)

\* C30 witness: a close on a transaction with a non-zero total has returned
\* success although no printer was found.
C30_Witness ==
    \E p \in Reqs :
        /\ Returned(p, "close_transaction")
        /\ req[p].tx \in DOMAIN transactions
        /\ req[p].paid_amount >= transactions[req[p].tx].total
        /\ transactions[req[p].tx].total > 0
        /\ loc[p].printed = "no_printer"
        /\ resp[p].status = Ok

\* C31: on the point-of-sale screen, remove_item_from_transaction never leaves
\* a line with quantity <= 0: every line has a positive quantity and every
\* update-item it sends carries a quantity >= 1; and with the details fetched,
\* it sends update-item with quantity - 1 for a line of quantity > 1, sends
\* remove-item for a line of quantity 1, and with no line for the item sends
\* nothing and returns Ok
C31_RemoveItemNeverBelowOne ==
    /\ [](\A l \in transaction_items : l.quantity > 0)
    /\ [](\A c \in Reqs :
            (/\ client[c].fn = "remove_item_from_transaction"
             /\ client[c].request.op = "update_transaction_item")
            => client[c].request.quantity >= 1)
    /\ [][\A c \in Reqs :
            (/\ client[c].pc = "await"
             /\ client[c].fn = "remove_item_from_transaction"
             /\ client[c].request.op = "get_transaction"
             /\ pc[c] = "done"
             /\ resp[c].status = Ok
             /\ client'[c] # client[c])
            => LET t == client[c].transaction_id
                   i == client[c].item_id
                   hit == {d \in resp[c].body[1].items : d.item_id = i}
                   returned == /\ client'[c].pc = "idle"
                               /\ client'[c].request = NoReq
                               /\ client'[c].result = "Ok"
               IN  IF hit = {} THEN returned
                   ELSE \E d \in hit :
                          \/ /\ d.quantity > 1
                             /\ client'[c].pc = "await"
                             /\ client'[c].request = PutItem(t, i, d.quantity - 1)
                          \/ /\ d.quantity = 1
                             /\ client'[c].pc = "await"
                             /\ client'[c].request = DeleteItem(t, i)
                          \/ /\ d.quantity < 1
                             /\ returned]_vars

\* C31 witness: a remove click found a line of quantity > 1 and its update-item
\* with quantity - 1 has been applied and answered
C31_Witness ==
    \E c \in Reqs :
       /\ client[c].pc = "await"
       /\ client[c].fn = "remove_item_from_transaction"
       /\ client[c].request.op = "update_transaction_item"
       /\ pc[c] = "done"
       /\ resp[c].status = Ok
       /\ \E l \in LinesFor(transaction_items, client[c].transaction_id,
                            client[c].item_id) :
             l.quantity = client[c].request.quantity

\* C32: whenever a close request has returned an error, its settlement write
\* has not committed: the handler holds no row returned by the settlement
\* UPDATE, and the transaction it named, if it passed the open check, is still
\* open with paid_amount, change_amount and closed_at unset
C32_CloseErrorLeavesOpen ==
    \A p \in Reqs :
       (Returned(p, "close_transaction") /\ resp[p].status # Ok)
       => /\ loc[p].row = None
          /\ resp[p].status = DatabaseError
             => /\ transactions[req[p].tx].status = "open"
                /\ transactions[req[p].tx].paid_amount = None
                /\ transactions[req[p].tx].change_amount = None
                /\ transactions[req[p].tx].closed_at = None

\* C33: with one client, whenever add-item, update-item or remove-item has
\* returned an error, the transaction's lines and total are as before the
\* request, so the stored total is still the sum of the stored lines
C33_LineItemErrorLeavesTotal ==
    \A p \in Reqs :
       (/\ pc[p] = "done"
        /\ req[p].op \in LineItemOps
        /\ resp[p].status # Ok
        /\ req[p].tx \in DOMAIN transactions)
       => transactions[req[p].tx].total
            = SumTotalPrice(LinesOf(transaction_items, req[p].tx))

\* C34: in every reachable state, with requests served concurrently, every
\* closed transaction has paid_amount >= total and change_amount = paid_amount
\* - total, for the total stored now
C34_ClosedCoversTotal ==
    \A t \in DOMAIN transactions :
       transactions[t].status = "closed"
       => /\ transactions[t].paid_amount # None
          /\ transactions[t].change_amount # None
          /\ transactions[t].paid_amount[1] >= transactions[t].total
          /\ transactions[t].change_amount[1]
               = transactions[t].paid_amount[1] - transactions[t].total

\* C35: a successful update-item leaves the id, the transaction id, the item
\* id and created_at of every line it writes as they were
C35_UpdateKeepsIdentity ==
    [][\A p \in Reqs :
          (pc[p] = "update_update" /\ pc'[p] = "update_update_total")
          => \A l \in LinesFor(transaction_items, req[p].tx, req[p].item) :
                \E m \in transaction_items' :
                   /\ m.id = l.id
                   /\ m.transaction_id = l.transaction_id
                   /\ m.item_id = l.item_id
                   /\ m.created_at = l.created_at]_vars

\* C36: in every reachable state every line's transaction_id names a row of
\* transactions; add-item, update-item and remove-item on an id that names no
\* transaction fail at their first statement and create, change and delete no
\* line; and no step removes a transaction and leaves lines of it behind
C36_LinesReferToTransactions ==
    /\ [](\A l \in transaction_items : l.transaction_id \in DOMAIN transactions)
    /\ [][/\ \A p \in Reqs :
                (/\ pc[p] = "idle"
                 /\ req'[p].op \in LineItemOps
                 /\ req'[p].tx \notin DOMAIN transactions)
                => /\ pc'[p] = "done"
                   /\ resp'[p].status \notin {Ok, "none"}
                   /\ transaction_items' = transaction_items
          /\ \A t \in DOMAIN transactions \ DOMAIN transactions' :
                LinesOf(transaction_items', t) = {}]_vars

\* C36 witness: a line-item request on an id that names no transaction has
\* been refused while another transaction has lines
C36_Witness ==
    \E p \in Reqs :
       /\ pc[p] = "done"
       /\ req[p].op \in LineItemOps
       /\ req[p].tx \notin DOMAIN transactions
       /\ resp[p].status = BadRequestNotOpen
       /\ transaction_items # {}

RECURSIVE ClicksOf(_)
\* the clicks the browser tasks cs have served
ClicksOf(cs) ==
    IF cs = {} THEN 0
    ELSE LET c == CHOOSE x \in cs : TRUE
         IN  client[c].clicks + ClicksOf(cs \ {c})

\* C37: through the screen, once the n add clicks made on item 1 of the open
\* transaction 1 have all returned, whatever the interleaving of their
\* requests, the transaction has exactly one line for the item and its
\* quantity is n
C37_ClicksAccumulate ==
    (\A c \in Reqs : client[c].pc = "idle")
    => LET n == ClicksOf(Reqs)
           hit == LinesFor(transaction_items, 1, 1)
       IN  n > 0 => \E l \in hit : hit = {l} /\ l.quantity = n

====
